---- MODULE Spec2Model ----
(***************************************************************************)
(* FYGo, irregular-board variant (src/src/irrBoard.py): the GoBoard rules  *)
(* engine (placement, captures, suicide and one-ply ko, pass, influence    *)
(* cache, snapshots) driven by the GoGame event loop (click, right-click   *)
(* pass, Ctrl+Z undo, Ctrl+Y redo, influence overlay).                     *)
(*                                                                         *)
(* Grids keep the source's 0-based indices: a grid is a function           *)
(* [0..rows-1 -> [0..cols-1 -> value]].  Python's None is the empty tuple. *)
(* The engine is modelled twice.  By value: a field holds the list or dict *)
(* itself (GoBoard, GoGame sections).  By reference: a field holds the     *)
(* address of an object of heap, writes to elements happen in place and    *)
(* copies allocate (the Ref... definitions); on it, SnapshotImmutability   *)
(* states that no two of the engine's fields share an object, which is     *)
(* what the model by value takes for granted.                              *)
(***************************************************************************)
EXTENDS Integers, Sequences, FiniteSets, TLC

VARIABLES
    go_board,     \* GoGame.go_board: the GoBoard object, a record of its fields
    history,      \* GoGame.history: sequence of snapshots, history[1] is Python's history[0]
    redo_stack,   \* GoGame.redo_stack: sequence of snapshots, top is the last element
    running,      \* GoGame.running
    pending,      \* events still queued in the batch being dispatched when running became False
    lastCmd,      \* history variable: the command just dispatched and place_stone's return value
    undoRun,      \* history variable: the live snapshot left by the last fresh action, whether an
                  \* undo has followed it, and whether the undos have reached the bottom of history
    forward,      \* history variable: the accepted actions (placements and passes) in order,
                  \* kept until the first undo, the number of pass_turn calls made since
                  \* the last accepted placement, and the number of accepted actions on the
                  \* live line (one more for a fresh action or a redo, one less for an undo)
    heap          \* the object store, used where the lists and dicts of the program are
                  \* followed by reference (address i is heap[i]); empty where they are
                  \* taken by value

vars == <<go_board, history, redo_stack, running, pending, lastCmd, undoRun, forward, heap>>

-----------------------------------------------------------------------------
(* Bounds of the model. *)

\* fresh actions (accepted placements, passes) are dispatched while len(history) < MaxHist
MaxHist == 4

\* events that may still sit in the event batch behind the pass that ended the game
MaxPending == 1

\* in forward play, fresh actions are dispatched while len(history) < MaxForward
MaxForward == 6

\* accepted actions of a game on the 5x5 board
ScenarioSteps == 8

\* on the wide board, fresh actions are dispatched while len(history) < MaxWide
MaxWide == 3

\* the size handed to GoBoard(size) of main.py: the smallest board on which a group of
\* two stones is captured
LegacySize == 2

\* on the regular board, fresh actions are dispatched while len(history) < MaxLegacy
MaxLegacy == 5

\* with the object store, commands are dispatched while it holds fewer than MaxHeap objects
MaxHeap == 40

-----------------------------------------------------------------------------
(* Values. *)

None == <<>>

Abs(x) == IF x < 0 THEN -x ELSE x

\* a grid literal written as a tuple of rows, re-indexed from 0 as Python lists are
FromRows(t) == [r \in 0..(Len(t) - 1) |-> [c \in 0..(Len(t[1]) - 1) |-> t[r + 1][c + 1]]]

\* two separate two-cell paths: (0,0)-(0,1) and (0,3)-(0,4); (0,2) is blocked
MaskPaths == FromRows(<< <<1, 1, 0, 1, 1>> >>)

\* an L-shaped three-cell path (0,1)-(0,0)-(1,0) and a playable cell (1,2) with no playable neighbour
MaskIsland == FromRows(<< <<1, 1, 0>>, <<1, 0, 1>> >>)

Masks == {MaskPaths, MaskIsland}

\* two rows of five with (1,1) blocked: cells up to four columns and five steps apart
MaskWide == FromRows(<< <<1, 1, 1, 1, 1>>, <<1, 0, 1, 1, 1>> >>)

\* a ring of eight cells around the blocked centre (1,1)
MaskRing == FromRows(<< <<1, 1, 1>>, <<1, 0, 1>>, <<1, 1, 1>> >>)

\* the 5x5 board with no blocked cells
Mask5x5 == [r \in 0..4 |-> [c \in 0..4 |-> 1]]

\* the cells of a board in range of its grid
Cells(self) == (0..(self.rows - 1)) \X (0..(self.cols - 1))

-----------------------------------------------------------------------------
(* GoBoard. *)

\* GoBoard.__init__
NewGoBoard(board_mask) ==
    LET rows == Cardinality(DOMAIN board_mask)
        cols == IF rows > 0 THEN Cardinality(DOMAIN board_mask[0]) ELSE 0
    IN  [ rows |-> rows,
          cols |-> cols,
          board_mask |-> board_mask,
          board |-> [r \in 0..(rows - 1) |-> [c \in 0..(cols - 1) |-> 0]],
          captured |-> [black |-> 0, white |-> 0],
          current_player |-> 1,
          last_moves |-> [p \in {1, 2} |-> None],
          influence_cache |-> None,
          base_power |-> 64,
          move_order |-> <<>>,
          prev_board |-> None,
          prev_prev_board |-> None,
          consecutive_passes |-> 0 ]

\* GoBoard.get_snapshot
GetSnapshot(self) ==
    [ board |-> self.board,
      captured |-> self.captured,
      current_player |-> self.current_player,
      last_moves |-> self.last_moves,
      move_order |-> self.move_order ]

\* mutant: the influence cache survives the restore
SetSnapshot_KeepsCache(self, snapshot) ==
    [self EXCEPT !.board = snapshot.board,
                 !.captured = snapshot.captured,
                 !.current_player = snapshot.current_player,
                 !.last_moves = snapshot.last_moves,
                 !.move_order = snapshot.move_order]

\* mutant: the move log is not restored
SetSnapshot_KeepsMoveOrder(self, snapshot) ==
    [self EXCEPT !.board = snapshot.board,
                 !.captured = snapshot.captured,
                 !.current_player = snapshot.current_player,
                 !.last_moves = snapshot.last_moves,
                 !.influence_cache = None]

\* mutant: the capture counters are not restored
SetSnapshot_KeepsCaptured(self, snapshot) ==
    [self EXCEPT !.board = snapshot.board,
                 !.current_player = snapshot.current_player,
                 !.last_moves = snapshot.last_moves,
                 !.move_order = snapshot.move_order,
                 !.influence_cache = None]

\* GoBoard.set_snapshot
SetSnapshot(self, snapshot) ==
    [self EXCEPT !.board = snapshot.board,
                 !.captured = snapshot.captured,
                 !.current_player = snapshot.current_player,
                 !.last_moves = snapshot.last_moves,
                 !.move_order = snapshot.move_order,
                 !.influence_cache = None]

\* mutant: the mask is not consulted
IsValidPosition_IgnoresMask(self, row, col) ==
    /\ 0 <= row
    /\ row < self.rows
    /\ 0 <= col
    /\ col < self.cols

\* GoBoard.is_valid_position: `and` short-circuits, so the mask is read only in range
IsValidPosition(self, row, col) ==
    /\ 0 <= row
    /\ row < self.rows
    /\ 0 <= col
    /\ col < self.cols
    /\ self.board_mask[row][col] = 1

\* list[i] as Python evaluates it on a list of n items held as a function on 0..n-1: a
\* negative index down to -n counts from the end, any other index outside 0..n-1 raises
\* IndexError
PyGetItem(list, i) ==
    LET n == Cardinality(DOMAIN list)
    IN  IF 0 <= i /\ i < n THEN [raised |-> FALSE, index |-> i]
        ELSE IF -n <= i /\ i < 0 THEN [raised |-> FALSE, index |-> n + i]
        ELSE [raised |-> TRUE, index |-> i]

\* the evaluation of board_mask[row][col] == 1: the value, the cells of the mask read,
\* and whether an IndexError was raised
MaskTest(self, row, col) ==
    LET r == PyGetItem(self.board_mask, row)
        c == PyGetItem(self.board_mask[r.index], col)
    IN  IF r.raised THEN [ret |-> FALSE, reads |-> {}, raised |-> TRUE]
        ELSE IF c.raised THEN [ret |-> FALSE, reads |-> {}, raised |-> TRUE]
        ELSE [ret |-> self.board_mask[r.index][c.index] = 1,
              reads |-> {<<r.index, c.index>>},
              raised |-> FALSE]

\* mutant: the mask is tested first, the bounds afterwards
EvalIsValidPosition_MaskFirst(self, row, col) ==
    LET m == MaskTest(self, row, col)
    IN  IF m.raised \/ ~m.ret THEN [m EXCEPT !.ret = FALSE]
        ELSE [m EXCEPT !.ret = 0 <= row /\ row < self.rows /\ 0 <= col /\ col < self.cols]

\* GoBoard.is_valid_position as Python evaluates it: the chained comparisons and the
\* mask test joined by `and`, each operand evaluated only if the ones before it are true
EvalIsValidPosition(self, row, col) ==
    IF ~(0 <= row /\ row < self.rows) THEN [ret |-> FALSE, reads |-> {}, raised |-> FALSE]
    ELSE IF ~(0 <= col /\ col < self.cols) THEN [ret |-> FALSE, reads |-> {}, raised |-> FALSE]
    ELSE MaskTest(self, row, col)

-----------------------------------------------------------------------------
(* GoBoard.calculate_influence.  A float is held as its numerator over 64:  *)
(* every term base * 0.5^distance with distance <= 6 is a multiple of 1/64, *)
(* so the float sums are exact and independent of the order of the loops.   *)

\* base * (0.5 ** distance), over 64
Contribution(base, distance) == (base * 64) \div (2 ^ distance)

\* int(round(val)) of val = x64/64: Python rounds halves to the even integer
RoundToInt(x64) ==
    LET q == x64 \div 64
        rem == x64 % 64
    IN  IF 2 * rem < 64 THEN q
        ELSE IF 2 * rem > 64 THEN q + 1
        ELSE IF q % 2 = 0 THEN q ELSE q + 1

RECURSIVE SumContributions(_, _, _, _)
\* the additions influence[nr][nc] += ... made by the stones in S
SumContributions(self, S, nr, nc) ==
    IF S = {} THEN 0
    ELSE LET rc == CHOOSE x \in S : TRUE
             stone == self.board[rc[1]][rc[2]]
             base == IF stone = 1 THEN self.base_power ELSE -self.base_power
             distance == Abs(nr - rc[1]) + Abs(nc - rc[2])
         IN  Contribution(base, distance) + SumContributions(self, S \ {rc}, nr, nc)

\* mutant: a stone reaches the cells within three steps of it
StonesReaching_Steps(self, nr, nc) ==
    { rc \in Cells(self) : /\ self.board[rc[1]][rc[2]] # 0
                           /\ Abs(nr - rc[1]) + Abs(nc - rc[2]) <= 3 }

\* the stones whose dr, dc loops (range(-3, 4) each) reach (nr, nc)
StonesReaching(self, nr, nc) ==
    { rc \in Cells(self) : /\ self.board[rc[1]][rc[2]] # 0
                           /\ Abs(nr - rc[1]) <= 3
                           /\ Abs(nc - rc[2]) <= 3 }

\* the grid calculate_influence computes when the cache is empty
ComputeInfluence(self) ==
    [nr \in 0..(self.rows - 1) |-> [nc \in 0..(self.cols - 1) |->
        IF IsValidPosition(self, nr, nc)
        THEN RoundToInt(SumContributions(self, StonesReaching(self, nr, nc), nr, nc))
        ELSE 0]]

\* GoBoard.calculate_influence: the grid returned and the object afterwards
CalculateInfluence(self) ==
    IF self.influence_cache # None
    THEN [ret |-> self.influence_cache, self |-> self]
    ELSE LET grid == ComputeInfluence(self)
         IN  [ret |-> grid, self |-> [self EXCEPT !.influence_cache = grid]]

-----------------------------------------------------------------------------
(* GoBoard.check_liberty: the breadth-first search with its queue. *)

\* the order in which check_liberty looks at the neighbours
Directions == << <<-1, 0>>, <<1, 0>>, <<0, -1>>, <<0, 1>> >>

\* mutant: a neighbour counts when it is in range, whatever the mask says
ValidNeighbours_IgnoresMask(self, r, c) ==
    LET all == [i \in 1..4 |-> <<r + Directions[i][1], c + Directions[i][2]>>]
    IN  SelectSeq(all, LAMBDA n : /\ 0 <= n[1] /\ n[1] < self.rows
                                  /\ 0 <= n[2] /\ n[2] < self.cols)

\* the in-range, playable neighbours of (r, c), in that order
ValidNeighbours(self, r, c) ==
    LET all == [i \in 1..4 |-> <<r + Directions[i][1], c + Directions[i][2]>>]
    IN  SelectSeq(all, LAMBDA n : IsValidPosition(self, n[1], n[2]))

RECURSIVE LibertySearch_NoVisited(_, _, _, _, _, _)
\* mutant: a dequeued cell is expanded whether or not it was visited; the loop, which then
\* need not end, is cut off once it has expanded twice as many cells as the grid has
LibertySearch_NoVisited(self, player, queue, visited, liberties, expanded) ==
    IF queue = <<>> \/ Len(expanded) > 2 * Cardinality(Cells(self))
    THEN [liberties |-> liberties, visited |-> visited, expanded |-> expanded, queue |-> queue]
    ELSE LET rc == Head(queue)
             nbrs == ValidNeighbours(self, rc[1], rc[2])
             empties == SelectSeq(nbrs, LAMBDA n : self.board[n[1]][n[2]] = 0)
             same == SelectSeq(nbrs, LAMBDA n : self.board[n[1]][n[2]] = player)
         IN  LibertySearch_NoVisited(self, player, Tail(queue) \o same, visited \cup {rc},
                                     liberties + Len(empties), Append(expanded, rc))

RECURSIVE LibertySearch(_, _, _, _, _, _)
\* the while loop: expanded lists the cells whose neighbours were examined, in order
LibertySearch(self, player, queue, visited, liberties, expanded) ==
    IF queue = <<>>
    THEN [liberties |-> liberties, visited |-> visited, expanded |-> expanded, queue |-> queue]
    ELSE LET rc == Head(queue)
             rest == Tail(queue)
         IN  IF rc \in visited
             THEN LibertySearch(self, player, rest, visited, liberties, expanded)
             ELSE LET nbrs == ValidNeighbours(self, rc[1], rc[2])
                      empties == SelectSeq(nbrs, LAMBDA n : self.board[n[1]][n[2]] = 0)
                      same == SelectSeq(nbrs, LAMBDA n : self.board[n[1]][n[2]] = player)
                  IN  LibertySearch(self, player, rest \o same, visited \cup {rc},
                                    liberties + Len(empties), Append(expanded, rc))

\* mutant: only the stone's own neighbours are looked at, the group is not followed
CheckLiberty_OwnNeighbours(self, row, col, player) ==
    \E i \in 1..Len(ValidNeighbours(self, row, col)) :
        LET n == ValidNeighbours(self, row, col)[i] IN self.board[n[1]][n[2]] = 0

\* GoBoard.check_liberty
CheckLiberty(self, row, col, player) ==
    LibertySearch(self, player, << <<row, col>> >>, {}, 0, <<>>).liberties > 0

-----------------------------------------------------------------------------
(* GoBoard.place_stone. *)

\* the list dead_opponents, as the set of its cells (each cell enters it once)
DeadOpponents(self, opponent) ==
    { rc \in Cells(self) : /\ self.board[rc[1]][rc[2]] = opponent
                           /\ ~CheckLiberty(self, rc[1], rc[2], opponent) }

\* mutant: the removed stones are counted for the colour that took them
RemoveDead_CountsForTaker(self, dead_opponents, opponent) ==
    [self EXCEPT
        !.board = [r \in 0..(self.rows - 1) |-> [c \in 0..(self.cols - 1) |->
                      IF <<r, c>> \in dead_opponents THEN 0 ELSE self.board[r][c]]],
        !.captured = IF opponent = 1
                     THEN [self.captured EXCEPT !.white = @ + Cardinality(dead_opponents)]
                     ELSE [self.captured EXCEPT !.black = @ + Cardinality(dead_opponents)]]

\* mutant: a removed stone also loses its entries in the move log
RemoveDead_DropsLogged(self, dead_opponents, opponent) ==
    [self EXCEPT
        !.board = [r \in 0..(self.rows - 1) |-> [c \in 0..(self.cols - 1) |->
                      IF <<r, c>> \in dead_opponents THEN 0 ELSE self.board[r][c]]],
        !.captured = IF opponent = 1
                     THEN [self.captured EXCEPT !.black = @ + Cardinality(dead_opponents)]
                     ELSE [self.captured EXCEPT !.white = @ + Cardinality(dead_opponents)],
        !.move_order = SelectSeq(self.move_order, LAMBDA e : <<e[1], e[2]>> \notin dead_opponents)]

\* the removal loop: each dead stone leaves the board and adds one to its colour's counter
RemoveDead(self, dead_opponents, opponent) ==
    LET n == Cardinality(dead_opponents)
    IN  [self EXCEPT
            !.board = [r \in 0..(self.rows - 1) |-> [c \in 0..(self.cols - 1) |->
                          IF <<r, c>> \in dead_opponents THEN 0 ELSE self.board[r][c]]],
            !.captured = IF opponent = 1
                         THEN [self.captured EXCEPT !.black = @ + n]
                         ELSE [self.captured EXCEPT !.white = @ + n]]

\* mutant: the rollback forgets the capture counters
Rollback_KeepsCounters(self, original_board, original_captured) ==
    [self EXCEPT !.board = original_board]

\* mutant: the rollback restores the counters and leaves the board as the attempt made it
Rollback_KeepsBoard(self, original_board, original_captured) ==
    [self EXCEPT !.captured = original_captured]

\* the rollback of the suicide and ko branches
Rollback(self, original_board, original_captured) ==
    [self EXCEPT !.board = original_board, !.captured = original_captured]

\* mutant: the commit leaves the pass counter as it is
Commit_KeepsPasses(self, original_board, row, col, player) ==
    [self EXCEPT !.prev_prev_board = self.prev_board,
                 !.prev_board = original_board,
                 !.last_moves = [self.last_moves EXCEPT ![player] = <<row, col>>],
                 !.move_order = Append(self.move_order, <<row, col, player>>),
                 !.current_player = 3 - player,
                 !.influence_cache = None]

\* mutant: prev_board is assigned before prev_prev_board takes its value
Commit_PrevBoardFirst(self, original_board, row, col, player) ==
    [self EXCEPT !.prev_prev_board = original_board,
                 !.prev_board = original_board,
                 !.last_moves = [self.last_moves EXCEPT ![player] = <<row, col>>],
                 !.move_order = Append(self.move_order, <<row, col, player>>),
                 !.current_player = 3 - player,
                 !.influence_cache = None,
                 !.consecutive_passes = 0]

\* mutant: the commit leaves the influence cache as it is
Commit_KeepsCache(self, original_board, row, col, player) ==
    [self EXCEPT !.prev_prev_board = self.prev_board,
                 !.prev_board = original_board,
                 !.last_moves = [self.last_moves EXCEPT ![player] = <<row, col>>],
                 !.move_order = Append(self.move_order, <<row, col, player>>),
                 !.current_player = 3 - player,
                 !.consecutive_passes = 0]

\* the commit at the end of an accepted placement
Commit(self, original_board, row, col, player) ==
    [self EXCEPT !.prev_prev_board = self.prev_board,
                 !.prev_board = original_board,
                 !.last_moves = [self.last_moves EXCEPT ![player] = <<row, col>>],
                 !.move_order = Append(self.move_order, <<row, col, player>>),
                 !.current_player = 3 - player,
                 !.influence_cache = None,
                 !.consecutive_passes = 0]

\* mutant: the ko test is missing
IsKo_Never(self) == FALSE

\* mutant: the ko test looks two placements back
IsKo_TwoBack(self) == self.prev_prev_board # None /\ self.board = self.prev_prev_board

\* the ko test: the board after captures against prev_board
IsKo(self) == self.prev_board # None /\ self.board = self.prev_board

\* mutant: a stone left without a liberty is not taken back
PlaceStone_AllowsSuicide(self, row, col, player) ==
    IF ~IsValidPosition(self, row, col)
    THEN [ret |-> FALSE, self |-> self]
    ELSE IF self.board[row][col] # 0
    THEN [ret |-> FALSE, self |-> self]
    ELSE LET original_board == self.board
             original_captured == self.captured
             placed == [self EXCEPT !.board[row][col] = player]
             opponent == 3 - player
             dead_opponents == DeadOpponents(placed, opponent)
             removed == RemoveDead(placed, dead_opponents, opponent)
         IN  IF IsKo(removed)
             THEN [ret |-> FALSE, self |-> Rollback(removed, original_board, original_captured)]
             ELSE [ret |-> TRUE, self |-> Commit(removed, original_board, row, col, player)]

\* GoBoard.place_stone: the value returned and the object afterwards
PlaceStone(self, row, col, player) ==
    IF ~IsValidPosition(self, row, col)
    THEN [ret |-> FALSE, self |-> self]
    ELSE IF self.board[row][col] # 0
    THEN [ret |-> FALSE, self |-> self]
    ELSE LET original_board == self.board
             original_captured == self.captured
             placed == [self EXCEPT !.board[row][col] = player]
             opponent == 3 - player
             dead_opponents == DeadOpponents(placed, opponent)
             removed == RemoveDead(placed, dead_opponents, opponent)
             has_liberty == CheckLiberty(removed, row, col, player)
         IN  IF ~has_liberty /\ dead_opponents = {}
             THEN [ret |-> FALSE, self |-> Rollback(removed, original_board, original_captured)]
             ELSE IF IsKo(removed)
             THEN [ret |-> FALSE, self |-> Rollback(removed, original_board, original_captured)]
             ELSE [ret |-> TRUE, self |-> Commit(removed, original_board, row, col, player)]

\* mutant: a pass empties the influence cache as a placement does
PassTurn_ClearsCache(self) ==
    [self EXCEPT !.consecutive_passes = @ + 1,
                 !.current_player = 3 - self.current_player,
                 !.influence_cache = None]

\* GoBoard.pass_turn
PassTurn(self) ==
    [self EXCEPT !.consecutive_passes = @ + 1,
                 !.current_player = 3 - self.current_player]

\* GoBoard.is_game_over
IsGameOver(self) == self.consecutive_passes >= 2

-----------------------------------------------------------------------------
(* GoGame: the event loop of run() and its handlers.                        *)
(* run() dispatches every event of a batch before it tests self.running     *)
(* again, so events queued behind the pass that ended the game are still    *)
(* handled: pending counts them.  While running is true the batch           *)
(* boundaries make no difference and pending stays 0.                       *)

\* an event of the for loop in run() can be dispatched
Dispatching == running \/ pending > 0

\* the event is taken from the batch
Consumed == pending' = IF running THEN pending ELSE pending - 1

\* the coordinates handed to place_stone: every cell of the grid, blocked ones included,
\* and one coordinate beyond each edge
ClickTargets(self) ==
    Cells(self) \cup {<<-1, 0>>, <<self.rows, 0>>, <<0, -1>>, <<0, self.cols>>}

\* the command record of lastCmd; a click that place_stone turns away at its first test
\* (position not valid, or cell occupied) is recorded without its coordinates
Cmd(op, row, col, player, ret) ==
    [op |-> op, row |-> row, col |-> col, player |-> player, ret |-> ret]

\* the fields of the live board that a snapshot is meant to hold, as undoRun.base keeps them
LiveFields(self) ==
    [ board |-> self.board,
      captured |-> self.captured,
      current_player |-> self.current_player,
      last_moves |-> self.last_moves,
      move_order |-> self.move_order ]

\* the entry a pass by player leaves in forward.accepted
PassBy(player) == <<-1, -1, player>>

\* the history variables after a fresh action (accepted placement or pass)
FreshAction(entry, self) ==
    /\ undoRun' = [base |-> LiveFields(self), undone |-> FALSE, floor |-> FALSE]
    /\ forward' = [undoUsed |-> forward.undoUsed,
                   accepted |-> IF forward.undoUsed THEN forward.accepted
                                ELSE Append(forward.accepted, entry),
                   passes |-> IF entry[1] = -1 THEN forward.passes + 1 ELSE 0,
                   line |-> forward.line + 1]

\* mutant: an accepted click leaves redo_stack as it is
HandleClick_KeepsRedo(row, col, limit) ==
    /\ Dispatching
    /\ LET player == go_board.current_player
           res == PlaceStone(go_board, row, col, player)
       IN  /\ res.ret => Len(history) < limit
           /\ go_board' = res.self
           /\ IF res.ret
              THEN /\ history' = Append(history, GetSnapshot(res.self))
                   /\ redo_stack' = redo_stack
                   /\ FreshAction(<<row, col, player>>, res.self)
              ELSE UNCHANGED <<history, redo_stack, undoRun, forward>>
           /\ lastCmd' = IF IsValidPosition(go_board, row, col) /\ go_board.board[row][col] = 0
                         THEN Cmd("click", row, col, player, res.ret)
                         ELSE Cmd("click", -1, -1, player, res.ret)
    /\ Consumed
    /\ UNCHANGED <<running, heap>>

\* GoGame.handle_click, from the point where the click has been resolved to (row, col);
\* limit bounds len(history)
HandleClick(row, col, limit) ==
    /\ Dispatching
    /\ LET player == go_board.current_player
           res == PlaceStone(go_board, row, col, player)
       IN  /\ res.ret => Len(history) < limit
           /\ go_board' = res.self
           /\ IF res.ret
              THEN /\ history' = Append(history, GetSnapshot(res.self))
                   /\ redo_stack' = <<>>
                   /\ FreshAction(<<row, col, player>>, res.self)
              ELSE UNCHANGED <<history, redo_stack, undoRun, forward>>
           /\ lastCmd' = IF IsValidPosition(go_board, row, col) /\ go_board.board[row][col] = 0
                         THEN Cmd("click", row, col, player, res.ret)
                         ELSE Cmd("click", -1, -1, player, res.ret)
    /\ Consumed
    /\ UNCHANGED <<running, heap>>

\* run(): MOUSEBUTTONDOWN with button 3; limit bounds len(history)
HandlePass(limit) ==
    /\ Dispatching
    /\ Len(history) < limit
    /\ LET passed == PassTurn(go_board)
       IN  /\ go_board' = passed
           /\ history' = Append(history, GetSnapshot(passed))
           /\ redo_stack' = <<>>
           /\ lastCmd' = Cmd("pass", -1, -1, go_board.current_player, TRUE)
           /\ FreshAction(PassBy(go_board.current_player), passed)
           /\ IF running /\ IsGameOver(passed)
              THEN /\ running' = FALSE
                   /\ pending' \in 0..MaxPending
              ELSE /\ Consumed
                   /\ UNCHANGED running
    /\ UNCHANGED heap

\* mutant: the test of undo_move is len(history) > 0, so the first entry can be popped
UndoMove_PopsFirst ==
    /\ Dispatching
    /\ IF Len(history) > 0
       THEN LET snapshot == history[Len(history)]
                popped == SubSeq(history, 1, Len(history) - 1)
            IN  /\ history' = popped
                /\ redo_stack' = Append(redo_stack, snapshot)
                /\ go_board' = IF popped = <<>> THEN go_board
                               ELSE SetSnapshot(go_board, popped[Len(popped)])
                /\ undoRun' = [undoRun EXCEPT !.undone = TRUE]
                /\ forward' = [undoUsed |-> TRUE, accepted |-> <<>>, passes |-> forward.passes,
                               line |-> forward.line - 1]
       ELSE UNCHANGED <<history, redo_stack, go_board, undoRun, forward>>
    /\ lastCmd' = Cmd("undo", -1, -1, go_board.current_player, Len(history) > 1)
    /\ Consumed
    /\ UNCHANGED <<running, heap>>

\* GoGame.undo_move (Ctrl+Z)
UndoMove ==
    /\ Dispatching
    /\ IF Len(history) > 1
       THEN LET snapshot == history[Len(history)]
                popped == SubSeq(history, 1, Len(history) - 1)
            IN  /\ history' = popped
                /\ redo_stack' = Append(redo_stack, snapshot)
                /\ go_board' = SetSnapshot(go_board, popped[Len(popped)])
                /\ undoRun' = [base |-> IF ~undoRun.undone THEN LiveFields(go_board)
                                        ELSE undoRun.base,
                               undone |-> TRUE,
                               floor |-> (redo_stack # <<>> /\ undoRun.floor) \/ Len(popped) = 1]
                /\ forward' = [undoUsed |-> TRUE, accepted |-> <<>>, passes |-> forward.passes,
                               line |-> forward.line - 1]
       ELSE UNCHANGED <<history, redo_stack, go_board, undoRun, forward>>
    /\ lastCmd' = Cmd("undo", -1, -1, go_board.current_player, Len(history) > 1)
    /\ Consumed
    /\ UNCHANGED <<running, heap>>

\* mutant: the snapshot goes back onto history but the board is not set to it
RedoMove_NoRestore ==
    /\ Dispatching
    /\ IF redo_stack # <<>>
       THEN LET snapshot == redo_stack[Len(redo_stack)]
            IN  /\ redo_stack' = SubSeq(redo_stack, 1, Len(redo_stack) - 1)
                /\ history' = Append(history, snapshot)
                /\ go_board' = go_board
                /\ forward' = [forward EXCEPT !.line = @ + 1]
       ELSE UNCHANGED <<history, redo_stack, go_board, forward>>
    /\ lastCmd' = Cmd("redo", -1, -1, go_board.current_player, redo_stack # <<>>)
    /\ Consumed
    /\ UNCHANGED <<running, undoRun, heap>>

\* GoGame.redo_move (Ctrl+Y)
RedoMove ==
    /\ Dispatching
    /\ IF redo_stack # <<>>
       THEN LET snapshot == redo_stack[Len(redo_stack)]
            IN  /\ redo_stack' = SubSeq(redo_stack, 1, Len(redo_stack) - 1)
                /\ history' = Append(history, snapshot)
                /\ go_board' = SetSnapshot(go_board, snapshot)
                /\ forward' = [forward EXCEPT !.line = @ + 1]
       ELSE UNCHANGED <<history, redo_stack, go_board, forward>>
    /\ lastCmd' = Cmd("redo", -1, -1, go_board.current_player, redo_stack # <<>>)
    /\ Consumed
    /\ UNCHANGED <<running, undoRun, heap>>

\* GoGame.draw_board with show_influence set: the frame drawn between two batches
DrawInfluence ==
    /\ pending = 0
    /\ go_board' = CalculateInfluence(go_board).self
    /\ lastCmd' = Cmd("influence", -1, -1, go_board.current_player, TRUE)
    /\ UNCHANGED <<history, redo_stack, running, pending, undoRun, forward, heap>>

\* GoGame.__init__ on the board mask of the configuration file
InitGame(board_mask) ==
    /\ go_board = NewGoBoard(board_mask)
    /\ history = <<GetSnapshot(NewGoBoard(board_mask))>>
    /\ redo_stack = <<>>
    /\ running = TRUE
    /\ pending = 0
    /\ lastCmd = Cmd("init", -1, -1, 1, TRUE)
    /\ undoRun = [base |-> LiveFields(NewGoBoard(board_mask)), undone |-> FALSE, floor |-> FALSE]
    /\ forward = [undoUsed |-> FALSE, accepted |-> <<>>, passes |-> 0, line |-> 0]
    /\ heap = <<>>

-----------------------------------------------------------------------------
(* The game driven by all its commands, on the small masks. *)

Init == \E board_mask \in Masks : InitGame(board_mask)

Next ==
    \/ \E rc \in ClickTargets(go_board) : HandleClick(rc[1], rc[2], MaxHist)
    \/ HandlePass(MaxHist)
    \/ UndoMove
    \/ RedoMove
    \/ DrawInfluence

Spec == Init /\ [][Next]_vars

-----------------------------------------------------------------------------
(* Forward play: clicks, passes and the overlay, no undo or redo. *)

NextForward ==
    \/ \E rc \in ClickTargets(go_board) : HandleClick(rc[1], rc[2], MaxForward)
    \/ HandlePass(MaxForward)
    \/ DrawInfluence

SpecForward == Init /\ [][NextForward]_vars

-----------------------------------------------------------------------------
(* The 5x5 board with no blocked cells, clicked on the centre and its four  *)
(* neighbours.                                                              *)

ScenarioCells == {<<2, 2>>, <<1, 2>>, <<3, 2>>, <<2, 1>>, <<2, 3>>}

InitScenario == InitGame(Mask5x5)

NextScenario ==
    \/ \E rc \in ScenarioCells : HandleClick(rc[1], rc[2], ScenarioSteps + 1)
    \/ HandlePass(ScenarioSteps + 1)

SpecScenario == InitScenario /\ [][NextScenario]_vars

-----------------------------------------------------------------------------
(* The wide board, for the reach of the influence of a stone. *)

InitWide == InitGame(MaskWide)

NextWide ==
    \/ \E rc \in ClickTargets(go_board) : HandleClick(rc[1], rc[2], MaxWide)
    \/ HandlePass(MaxWide)
    \/ DrawInfluence

SpecWide == InitWide /\ [][NextWide]_vars

-----------------------------------------------------------------------------
(* The same engine with its lists and dicts followed by reference.  Every   *)
(* list or dict the program creates is an object of heap and a field holds  *)
(* its address; an assignment to an element writes the object in place, an  *)
(* assignment to a field replaces the address.  The objects are: a board    *)
(* (a function from row index to the address of a row), a row (a function   *)
(* from column index to 0, 1 or 2), captured, last_moves and move_order.    *)
(* A snapshot is the dict get_snapshot builds, a record of addresses; no    *)
(* code assigns to a key of it.                                             *)

\* None where a field holds a reference
NoRef == 0

\* [row.copy() for row in board]: a new row for each row, then the new list of them
CopyBoard(h, board) ==
    LET n == Cardinality(DOMAIN h[board])
        copies == [i \in 1..n |-> h[h[board][i - 1]]]
        h1 == h \o copies
    IN  [heap |-> Append(h1, [r \in 0..(n - 1) |-> Len(h) + r + 1]), ref |-> Len(h1) + 1]

\* x.copy() of a dict or a list of immutable values
CopyObject(h, x) == [heap |-> Append(h, h[x]), ref |-> Len(h) + 1]

\* the grid a board reference stands for
DerefBoard(h, board) == [r \in DOMAIN h[board] |-> h[h[board][r]]]

\* the object as check_liberty and is_valid_position read it through its references
View(h, self) ==
    [ rows |-> self.rows,
      cols |-> self.cols,
      board_mask |-> self.board_mask,
      board |-> DerefBoard(h, self.board) ]

\* GoBoard.__init__ by reference: the rows and the board list, then captured, last_moves
\* and move_order
RefNewGoBoard(h, board_mask) ==
    LET new == NewGoBoard(board_mask)
        h1 == h \o [i \in 1..new.rows |-> new.board[i - 1]]
        h2 == Append(h1, [r \in 0..(new.rows - 1) |-> Len(h) + r + 1])
        h3 == h2 \o <<new.captured, new.last_moves, new.move_order>>
    IN  [heap |-> h3,
         self |-> [new EXCEPT !.board = Len(h2),
                              !.captured = Len(h2) + 1,
                              !.last_moves = Len(h2) + 2,
                              !.move_order = Len(h2) + 3,
                              !.prev_board = NoRef,
                              !.prev_prev_board = NoRef]]

\* mutant: the snapshot takes self.board.copy(), a new list of the same rows
RefGetSnapshot_SharesRows(h, self) ==
    LET b == CopyObject(h, self.board)
        c == CopyObject(b.heap, self.captured)
        l == CopyObject(c.heap, self.last_moves)
        m == CopyObject(l.heap, self.move_order)
    IN  [heap |-> m.heap,
         snapshot |-> [board |-> b.ref, captured |-> c.ref,
                       current_player |-> self.current_player,
                       last_moves |-> l.ref, move_order |-> m.ref]]

\* GoBoard.get_snapshot by reference
RefGetSnapshot(h, self) ==
    LET b == CopyBoard(h, self.board)
        c == CopyObject(b.heap, self.captured)
        l == CopyObject(c.heap, self.last_moves)
        m == CopyObject(l.heap, self.move_order)
    IN  [heap |-> m.heap,
         snapshot |-> [board |-> b.ref, captured |-> c.ref,
                       current_player |-> self.current_player,
                       last_moves |-> l.ref, move_order |-> m.ref]]

\* GoBoard.set_snapshot by reference
RefSetSnapshot(h, self, snapshot) ==
    LET b == CopyBoard(h, snapshot.board)
        c == CopyObject(b.heap, snapshot.captured)
        l == CopyObject(c.heap, snapshot.last_moves)
        m == CopyObject(l.heap, snapshot.move_order)
    IN  [heap |-> m.heap,
         self |-> [self EXCEPT !.board = b.ref,
                               !.captured = c.ref,
                               !.current_player = snapshot.current_player,
                               !.last_moves = l.ref,
                               !.move_order = m.ref,
                               !.influence_cache = None]]

\* the removal loop by reference: the rows of the live board and the live captured dict
\* are written in place
RefRemoveDead(h, self, dead_opponents, opponent) ==
    LET n == Cardinality(dead_opponents)
        IsRow(i, r) == h[self.board][r] = i
    IN  [i \in 1..Len(h) |->
            IF \E r \in DOMAIN h[self.board] : IsRow(i, r)
            THEN [c \in DOMAIN h[i] |->
                     IF \E r \in DOMAIN h[self.board] : IsRow(i, r) /\ <<r, c>> \in dead_opponents
                     THEN 0
                     ELSE h[i][c]]
            ELSE IF i = self.captured
            THEN IF opponent = 1 THEN [h[i] EXCEPT !.black = @ + n]
                                 ELSE [h[i] EXCEPT !.white = @ + n]
            ELSE h[i]]

\* GoBoard.place_stone by reference: the value returned, the store and the object
\* afterwards
RefPlaceStone(h, self, row, col, player) ==
    IF ~IsValidPosition(View(h, self), row, col)
    THEN [ret |-> FALSE, heap |-> h, self |-> self]
    ELSE IF h[h[self.board][row]][col] # 0
    THEN [ret |-> FALSE, heap |-> h, self |-> self]
    ELSE LET original_board == CopyBoard(h, self.board)
             original_captured == CopyObject(original_board.heap, self.captured)
             h1 == [original_captured.heap EXCEPT ![h[self.board][row]][col] = player]
             opponent == 3 - player
             dead_opponents == DeadOpponents(View(h1, self), opponent)
             h2 == RefRemoveDead(h1, self, dead_opponents, opponent)
             has_liberty == CheckLiberty(View(h2, self), row, col, player)
             rolled == [self EXCEPT !.board = original_board.ref,
                                    !.captured = original_captured.ref]
         IN  IF ~has_liberty /\ dead_opponents = {}
             THEN [ret |-> FALSE, heap |-> h2, self |-> rolled]
             ELSE IF /\ self.prev_board # NoRef
                     /\ DerefBoard(h2, self.board) = DerefBoard(h2, self.prev_board)
             THEN [ret |-> FALSE, heap |-> h2, self |-> rolled]
             ELSE [ret |-> TRUE,
                   heap |-> [h2 EXCEPT ![self.last_moves][player] = <<row, col>>,
                                       ![self.move_order] = Append(@, <<row, col, player>>)],
                   self |-> [self EXCEPT !.prev_prev_board = self.prev_board,
                                         !.prev_board = original_board.ref,
                                         !.current_player = 3 - player,
                                         !.influence_cache = None,
                                         !.consecutive_passes = 0]]

\* GoGame.handle_click by reference
RefHandleClick(row, col) ==
    /\ Dispatching
    /\ Len(heap) < MaxHeap
    /\ LET player == go_board.current_player
           res == RefPlaceStone(heap, go_board, row, col, player)
           pushed == RefGetSnapshot(res.heap, res.self)
       IN  /\ go_board' = res.self
           /\ IF res.ret
              THEN /\ heap' = pushed.heap
                   /\ history' = Append(history, pushed.snapshot)
                   /\ redo_stack' = <<>>
              ELSE /\ heap' = res.heap
                   /\ UNCHANGED <<history, redo_stack>>
           /\ lastCmd' = IF /\ IsValidPosition(View(heap, go_board), row, col)
                            /\ heap[heap[go_board.board][row]][col] = 0
                         THEN Cmd("click", row, col, player, res.ret)
                         ELSE Cmd("click", -1, -1, player, res.ret)
    /\ Consumed
    /\ UNCHANGED <<running, undoRun, forward>>

\* run(), button 3, by reference
RefHandlePass ==
    /\ Dispatching
    /\ Len(heap) < MaxHeap
    /\ LET passed == PassTurn(go_board)
           pushed == RefGetSnapshot(heap, passed)
       IN  /\ go_board' = passed
           /\ heap' = pushed.heap
           /\ history' = Append(history, pushed.snapshot)
           /\ redo_stack' = <<>>
           /\ lastCmd' = Cmd("pass", -1, -1, go_board.current_player, TRUE)
           /\ IF running /\ IsGameOver(passed)
              THEN /\ running' = FALSE
                   /\ pending' \in 0..MaxPending
              ELSE /\ Consumed
                   /\ UNCHANGED running
    /\ UNCHANGED <<undoRun, forward>>

\* GoGame.undo_move by reference: the popped dict itself goes to redo_stack
RefUndoMove ==
    /\ Dispatching
    /\ Len(heap) < MaxHeap
    /\ IF Len(history) > 1
       THEN LET snapshot == history[Len(history)]
                popped == SubSeq(history, 1, Len(history) - 1)
                restored == RefSetSnapshot(heap, go_board, popped[Len(popped)])
            IN  /\ history' = popped
                /\ redo_stack' = Append(redo_stack, snapshot)
                /\ go_board' = restored.self
                /\ heap' = restored.heap
       ELSE UNCHANGED <<history, redo_stack, go_board, heap>>
    /\ lastCmd' = Cmd("undo", -1, -1, go_board.current_player, Len(history) > 1)
    /\ Consumed
    /\ UNCHANGED <<running, undoRun, forward>>

\* GoGame.redo_move by reference
RefRedoMove ==
    /\ Dispatching
    /\ Len(heap) < MaxHeap
    /\ IF redo_stack # <<>>
       THEN LET snapshot == redo_stack[Len(redo_stack)]
                restored == RefSetSnapshot(heap, go_board, snapshot)
            IN  /\ redo_stack' = SubSeq(redo_stack, 1, Len(redo_stack) - 1)
                /\ history' = Append(history, snapshot)
                /\ go_board' = restored.self
                /\ heap' = restored.heap
       ELSE UNCHANGED <<history, redo_stack, go_board, heap>>
    /\ lastCmd' = Cmd("redo", -1, -1, go_board.current_player, redo_stack # <<>>)
    /\ Consumed
    /\ UNCHANGED <<running, undoRun, forward>>

\* GoGame.__init__ by reference
InitRef ==
    \E board_mask \in Masks :
        LET new == RefNewGoBoard(<<>>, board_mask)
            first == RefGetSnapshot(new.heap, new.self)
        IN  /\ go_board = new.self
            /\ heap = first.heap
            /\ history = <<first.snapshot>>
            /\ redo_stack = <<>>
            /\ running = TRUE
            /\ pending = 0
            /\ lastCmd = Cmd("init", -1, -1, 1, TRUE)
            /\ undoRun = [base |-> None, undone |-> FALSE, floor |-> FALSE]
            /\ forward = [undoUsed |-> FALSE, accepted |-> <<>>, passes |-> 0, line |-> 0]

NextRef ==
    \/ \E rc \in ClickTargets(go_board) : RefHandleClick(rc[1], rc[2])
    \/ RefHandlePass
    \/ RefUndoMove
    \/ RefRedoMove

SpecRef == InitRef /\ [][NextRef]_vars

-----------------------------------------------------------------------------
(* check_liberty called on any occupancy of a board: every way of putting   *)
(* black and white stones on the playable cells of a mask.                  *)

\* the occupancies of a board: 0, 1 or 2 on each playable cell, 0 on each blocked cell
Occupancies(self) ==
    { b \in [0..(self.rows - 1) -> [0..(self.cols - 1) -> {0, 1, 2}]] :
        \A rc \in Cells(self) : self.board_mask[rc[1]][rc[2]] # 1 => b[rc[1]][rc[2]] = 0 }

InitBoards ==
    \E board_mask \in Masks \cup {MaskRing} :
        \E b \in Occupancies(NewGoBoard(board_mask)) :
            LET self == [NewGoBoard(board_mask) EXCEPT !.board = b]
            IN  /\ go_board = self
                /\ history = <<GetSnapshot(self)>>
                /\ redo_stack = <<>>
                /\ running = TRUE
                /\ pending = 0
                /\ lastCmd = Cmd("init", -1, -1, 1, TRUE)
                /\ undoRun = [base |-> LiveFields(self), undone |-> FALSE, floor |-> FALSE]
                /\ forward = [undoUsed |-> FALSE, accepted |-> <<>>, passes |-> 0, line |-> 0]
                /\ heap = <<>>

\* check_liberty(row, col, player) for the stone on (row, col)
CheckLibertyCall(row, col) ==
    /\ go_board.board[row][col] # 0
    /\ lastCmd' = Cmd("check_liberty", row, col, go_board.board[row][col],
                      CheckLiberty(go_board, row, col, go_board.board[row][col]))
    /\ UNCHANGED <<go_board, history, redo_stack, running, pending, undoRun, forward, heap>>

NextBoards == \E rc \in Cells(go_board) : CheckLibertyCall(rc[1], rc[2])

SpecBoards == InitBoards /\ [][NextBoards]_vars

-----------------------------------------------------------------------------
(* The regular-board variant (src/src/main.py): a square board of side      *)
(* size with no mask, no ko test and no pass counter; a placement is valid  *)
(* when the cell is empty, is not the player's own last move, and the stone *)
(* has a liberty once the opposing dead stones are gone.                    *)

\* GoBoard.__init__ of main.py
NewLegacyBoard(size) ==
    [ size |-> size,
      board |-> [r \in 0..(size - 1) |-> [c \in 0..(size - 1) |-> 0]],
      captured |-> [black |-> 0, white |-> 0],
      current_player |-> 1,
      last_moves |-> [p \in {1, 2} |-> None],
      influence_cache |-> None,
      base_power |-> 64,
      move_order |-> <<>> ]

\* GoBoard.get_snapshot of main.py
LegacyGetSnapshot(self) ==
    [ board |-> self.board,
      captured |-> self.captured,
      current_player |-> self.current_player,
      last_moves |-> self.last_moves,
      move_order |-> self.move_order ]

\* GoBoard.set_snapshot of main.py
LegacySetSnapshot(self, snapshot) ==
    [self EXCEPT !.board = snapshot.board,
                 !.captured = snapshot.captured,
                 !.current_player = snapshot.current_player,
                 !.last_moves = snapshot.last_moves,
                 !.move_order = snapshot.move_order,
                 !.influence_cache = None]

\* the cells of the regular board
LegacyCells(self) == (0..(self.size - 1)) \X (0..(self.size - 1))

\* GoBoard.check_liberty of main.py: the loop of the irregular variant with the test
\* 0 <= nr < size and 0 <= nc < size in the place of is_valid_position
LegacyCheckLiberty(self, row, col, player) ==
    LET grid == [ rows |-> self.size,
                  cols |-> self.size,
                  board_mask |-> [r \in 0..(self.size - 1) |-> [c \in 0..(self.size - 1) |-> 1]],
                  board |-> self.board ]
    IN  LibertySearch(grid, player, << <<row, col>> >>, {}, 0, <<>>).liberties > 0

\* the stones of player without a liberty, as both scans of main.py collect them
LegacyDead(self, player) ==
    { rc \in LegacyCells(self) : /\ self.board[rc[1]][rc[2]] = player
                                 /\ ~LegacyCheckLiberty(self, rc[1], rc[2], player) }

\* self.board with the cells of S set to 0
LegacyCleared(self, S) ==
    [r \in 0..(self.size - 1) |-> [c \in 0..(self.size - 1) |->
        IF <<r, c>> \in S THEN 0 ELSE self.board[r][c]]]

\* mutant: the test against the player's own last move is missing
LegacyIsValidMove_NoLastMove(self, row, col, player) ==
    IF self.board[row][col] # 0 THEN FALSE
    ELSE LET placed == [self EXCEPT !.board[row][col] = player]
             dead_stones == LegacyDead(placed, 3 - player)
             removed == [placed EXCEPT !.board = LegacyCleared(placed, dead_stones)]
         IN  LegacyCheckLiberty(removed, row, col, player)

\* GoBoard.is_valid_move of main.py; it tries the stone on self.board and puts the copy it
\* took back, so the object is as before when it returns
LegacyIsValidMove(self, row, col, player) ==
    IF self.board[row][col] # 0 THEN FALSE
    ELSE IF <<row, col>> = self.last_moves[player] THEN FALSE
    ELSE LET placed == [self EXCEPT !.board[row][col] = player]
             dead_stones == LegacyDead(placed, 3 - player)
             removed == [placed EXCEPT !.board = LegacyCleared(placed, dead_stones)]
         IN  LegacyCheckLiberty(removed, row, col, player)

\* GoBoard.remove_dead_stones of main.py
LegacyRemoveDeadStones(self, player) ==
    LET to_remove == LegacyDead(self, player)
        n == Cardinality(to_remove)
    IN  [self EXCEPT !.board = LegacyCleared(self, to_remove),
                     !.captured = IF player = 1
                                  THEN [self.captured EXCEPT !.black = @ + n]
                                  ELSE [self.captured EXCEPT !.white = @ + n],
                     !.influence_cache = None]

\* GoBoard.place_stone of main.py: the value returned and the object afterwards
LegacyPlaceStone(self, row, col, player) ==
    IF ~LegacyIsValidMove(self, row, col, player)
    THEN [ret |-> FALSE, self |-> self]
    ELSE LET placed == [self EXCEPT !.board[row][col] = player]
             removed == LegacyRemoveDeadStones(placed, 3 - player)
         IN  [ret |-> TRUE,
              self |-> [removed EXCEPT
                           !.last_moves = [removed.last_moves EXCEPT ![player] = <<row, col>>],
                           !.move_order = Append(removed.move_order, <<row, col, player>>),
                           !.current_player = 3 - player,
                           !.influence_cache = None]]

\* the object is the GoBoard of main.py
IsLegacy(self) == "size" \in DOMAIN self

\* GoGame.handle_click of main.py: the click is resolved to a cell of the board
LegacyHandleClick(row, col) ==
    /\ running
    /\ LET player == go_board.current_player
           res == LegacyPlaceStone(go_board, row, col, player)
       IN  /\ res.ret => Len(history) < MaxLegacy
           /\ go_board' = res.self
           /\ IF res.ret
              THEN /\ history' = Append(history, LegacyGetSnapshot(res.self))
                   /\ redo_stack' = <<>>
              ELSE UNCHANGED <<history, redo_stack>>
           /\ lastCmd' = Cmd("click", row, col, player, res.ret)
    /\ UNCHANGED <<running, pending, undoRun, forward, heap>>

\* run() of main.py, button 3: the turn changes hands
LegacyHandlePass ==
    /\ running
    /\ Len(history) < MaxLegacy
    /\ LET passed == [go_board EXCEPT !.current_player = 3 - go_board.current_player]
       IN  /\ go_board' = passed
           /\ history' = Append(history, LegacyGetSnapshot(passed))
           /\ redo_stack' = <<>>
           /\ lastCmd' = Cmd("pass", -1, -1, go_board.current_player, TRUE)
    /\ UNCHANGED <<running, pending, undoRun, forward, heap>>

\* GoGame.undo_move of main.py
LegacyUndoMove ==
    /\ running
    /\ IF Len(history) > 1
       THEN LET snapshot == history[Len(history)]
                popped == SubSeq(history, 1, Len(history) - 1)
            IN  /\ history' = popped
                /\ redo_stack' = Append(redo_stack, snapshot)
                /\ go_board' = LegacySetSnapshot(go_board, popped[Len(popped)])
       ELSE UNCHANGED <<history, redo_stack, go_board>>
    /\ lastCmd' = Cmd("undo", -1, -1, go_board.current_player, Len(history) > 1)
    /\ UNCHANGED <<running, pending, undoRun, forward, heap>>

\* GoGame.redo_move of main.py
LegacyRedoMove ==
    /\ running
    /\ IF redo_stack # <<>>
       THEN LET snapshot == redo_stack[Len(redo_stack)]
            IN  /\ redo_stack' = SubSeq(redo_stack, 1, Len(redo_stack) - 1)
                /\ history' = Append(history, snapshot)
                /\ go_board' = LegacySetSnapshot(go_board, snapshot)
       ELSE UNCHANGED <<history, redo_stack, go_board>>
    /\ lastCmd' = Cmd("redo", -1, -1, go_board.current_player, redo_stack # <<>>)
    /\ UNCHANGED <<running, pending, undoRun, forward, heap>>

\* GoGame.__init__ of main.py
InitLegacy ==
    /\ go_board = NewLegacyBoard(LegacySize)
    /\ history = <<LegacyGetSnapshot(NewLegacyBoard(LegacySize))>>
    /\ redo_stack = <<>>
    /\ running = TRUE
    /\ pending = 0
    /\ lastCmd = Cmd("init", -1, -1, 1, TRUE)
    /\ undoRun = [base |-> None, undone |-> FALSE, floor |-> FALSE]
    /\ forward = [undoUsed |-> FALSE, accepted |-> <<>>, passes |-> 0, line |-> 0]
    /\ heap = <<>>

NextLegacy ==
    \/ \E rc \in LegacyCells(go_board) : LegacyHandleClick(rc[1], rc[2])
    \/ LegacyHandlePass
    \/ LegacyUndoMove
    \/ LegacyRedoMove

\* the two programs of the repository: main.py on its regular board, irrBoard.py in
\* forward play on the small masks
InitVariants == InitLegacy \/ Init

NextVariants ==
    \/ IsLegacy(go_board) /\ NextLegacy
    \/ ~IsLegacy(go_board) /\ NextForward

SpecVariants == InitVariants /\ [][NextVariants]_vars

-----------------------------------------------------------------------------
(* The vocabulary of the rules, stated on sets of cells and independently   *)
(* of the search in check_liberty.                                          *)

Playable(self) == {rc \in Cells(self) : self.board_mask[rc[1]][rc[2]] = 1}

Adjacent(a, b) == Abs(a[1] - b[1]) + Abs(a[2] - b[2]) = 1

RECURSIVE Connected(_, _, _, _)
\* the cells of the given colour joined to S through cells of that colour
Connected(self, board, colour, S) ==
    LET more == {x \in Playable(self) : /\ board[x[1]][x[2]] = colour
                                        /\ \E y \in S : Adjacent(x, y)}
    IN  IF more \subseteq S THEN S ELSE Connected(self, board, colour, S \cup more)

\* the group of the stone at rc on board
Group(self, board, rc) == Connected(self, board, board[rc[1]][rc[2]], {rc})

\* the liberties of a set of stones on board
Liberties(self, board, G) ==
    {x \in Playable(self) : board[x[1]][x[2]] = 0 /\ \E y \in G : Adjacent(x, y)}

\* board with a stone of player put on rc
WithStone(board, rc, player) == [board EXCEPT ![rc[1]][rc[2]] = player]

\* the stones of colour that stand in groups without a liberty on board
Dead(self, board, colour) ==
    {x \in Playable(self) : /\ board[x[1]][x[2]] = colour
                            /\ Liberties(self, board, Group(self, board, x)) = {}}

\* board with the cells of S emptied
Without(self, board, S) ==
    [r \in 0..(self.rows - 1) |-> [c \in 0..(self.cols - 1) |->
        IF <<r, c>> \in S THEN 0 ELSE board[r][c]]]

\* the stones of colour on board
Stones(self, board, colour) == {x \in Cells(self) : board[x[1]][x[2]] = colour}

\* the state a new game starts in, as a snapshot
InitialSnapshot(self) ==
    [ board |-> [r \in 0..(self.rows - 1) |-> [c \in 0..(self.cols - 1) |-> 0]],
      captured |-> [black |-> 0, white |-> 0],
      current_player |-> 1,
      last_moves |-> [p \in {1, 2} |-> None],
      move_order |-> <<>> ]

\* the command just dispatched was a click that got as far as putting the stone down
Clicked(cmd) == cmd.op = "click" /\ cmd.row # -1

-----------------------------------------------------------------------------
(* C1. Atomic rejection: a click whose place_stone call is rejected, for    *)
(* whichever of the four reasons, leaves the whole GoBoard object (board,   *)
(* captured, current_player, move_order, last_moves, prev_board,            *)
(* consecutive_passes, influence_cache) and the adapter's history and       *)
(* redo_stack exactly as they were before the call.                         *)
AtomicRejection ==
    [][ (lastCmd'.op = "click" /\ ~lastCmd'.ret)
            => /\ go_board' = go_board
               /\ history' = history
               /\ redo_stack' = redo_stack ]_vars

\* a click has just been rejected by the ko test after its stone had captured, with an
\* undone move waiting in redo_stack
RejectedAfterCapture ==
    /\ Clicked(lastCmd)
    /\ ~lastCmd.ret
    /\ redo_stack # <<>>
    /\ Dead(go_board, WithStone(go_board.board, <<lastCmd.row, lastCmd.col>>, lastCmd.player),
            3 - lastCmd.player) # {}

-----------------------------------------------------------------------------
(* C2. Capture correctness: an accepted placement by p removes exactly the  *)
(* opposing stones that stand in groups without a liberty once the stone is *)
(* down (all of them, and nothing else: no opposing stone of a group with a *)
(* liberty, no stone of p), and the counter of the removed colour rises by  *)
(* the number of stones removed while the other counter stays.              *)
CaptureCorrectness ==
    [][ (Clicked(lastCmd') /\ lastCmd'.ret)
            => LET p == lastCmd'.player
                   placed == WithStone(go_board.board, <<lastCmd'.row, lastCmd'.col>>, p)
                   dead == Dead(go_board, placed, 3 - p)
                   n == Cardinality(dead)
               IN  /\ go_board'.board = Without(go_board, placed, dead)
                   /\ go_board'.captured =
                          IF p = 2
                          THEN [black |-> go_board.captured.black + n,
                                white |-> go_board.captured.white]
                          ELSE [black |-> go_board.captured.black,
                                white |-> go_board.captured.white + n] ]_vars

\* the placement just accepted took two or more stones in one call
CapturedSeveral ==
    /\ Clicked(lastCmd)
    /\ lastCmd.ret
    /\ LET before == history[Len(history) - 1].board
           opponent == 3 - lastCmd.player
       IN  Cardinality(Stones(go_board, before, opponent)
                       \ Stones(go_board, go_board.board, opponent)) >= 2

\* placing a stone of player on rc takes nothing and leaves its group without a liberty
IsSuicide(self, rc, player) ==
    LET placed == WithStone(self.board, rc, player)
    IN  /\ Dead(self, placed, 3 - player) = {}
        /\ Liberties(self, placed, Group(self, placed, rc)) = {}

-----------------------------------------------------------------------------
(* C3. Suicide rejection: a placement on an empty playable cell that takes  *)
(* no opposing stone and leaves the placed stone's group without a liberty  *)
(* is rejected; board, captured, current_player and move_order stay as they *)
(* were.                                                                    *)
SuicideRejection ==
    [][ (Clicked(lastCmd') /\ IsSuicide(go_board, <<lastCmd'.row, lastCmd'.col>>, lastCmd'.player))
            => /\ ~lastCmd'.ret
               /\ go_board'.board = go_board.board
               /\ go_board'.captured = go_board.captured
               /\ go_board'.current_player = go_board.current_player
               /\ go_board'.move_order = go_board.move_order ]_vars

\* a suicide has just been rejected: the stone would have joined a group of its colour and
\* taken that group's last liberty
SuicideRejected ==
    /\ Clicked(lastCmd)
    /\ ~lastCmd.ret
    /\ IsSuicide(go_board, <<lastCmd.row, lastCmd.col>>, lastCmd.player)
    /\ \E x \in Stones(go_board, go_board.board, lastCmd.player) :
           Adjacent(x, <<lastCmd.row, lastCmd.col>>)

\* no undo so far, the last accepted action is a placement that took exactly the stone on v,
\* and a stone of the opponent on v would take the placed stone alone and bring back the
\* board held before that placement
KoSetup(v) ==
    /\ ~forward.undoUsed
    /\ forward.accepted # <<>>
    /\ LET last == forward.accepted[Len(forward.accepted)]
           p == last[3]
           before == history[Len(history) - 1].board
           retaken == WithStone(go_board.board, v, 3 - p)
       IN  /\ last[1] # -1
           /\ Stones(go_board, before, 3 - p) \ Stones(go_board, go_board.board, 3 - p) = {v}
           /\ Dead(go_board, retaken, p) = {<<last[1], last[2]>>}
           /\ Without(go_board, retaken, Dead(go_board, retaken, p)) = before

-----------------------------------------------------------------------------
(* C4. Ko rejection in forward play: when the last accepted action is a     *)
(* placement at A that took exactly one stone, a click by the opponent on   *)
(* the vacated cell that would take the stone at A and bring back the board *)
(* held before the placement at A is rejected, and the whole state (the     *)
(* capture counters included), history and redo_stack are as before.        *)
KoRejection ==
    [][ \A v \in Cells(go_board) :
          (KoSetup(v) /\ Clicked(lastCmd') /\ lastCmd'.row = v[1] /\ lastCmd'.col = v[2])
              => /\ ~lastCmd'.ret
                 /\ go_board' = go_board
                 /\ history' = history
                 /\ redo_stack' = redo_stack ]_vars

\* the retake of a ko has just been rejected
KoRejected ==
    /\ Clicked(lastCmd)
    /\ ~lastCmd.ret
    /\ KoSetup(<<lastCmd.row, lastCmd.col>>)

\* entry i of the history h was pushed by an accepted placement
IsPlacementEntry(h, i) == Len(h[i].move_order) = Len(h[i - 1].move_order) + 1

-----------------------------------------------------------------------------
(* C5. Ko invariant over all command sequences: the board an accepted       *)
(* placement produces differs from the board the live line (history) held   *)
(* just before the preceding placement of that line.                        *)
KoInvariant ==
    (Clicked(lastCmd) /\ lastCmd.ret)
        => LET prior == {i \in 2..(Len(history) - 1) : IsPlacementEntry(history, i)}
               last == CHOOSE i \in prior : \A j \in prior : j <= i
           IN  prior # {} => go_board.board # history[last - 1].board

-----------------------------------------------------------------------------
(* C6. Undo/redo round trip: when undos have emptied history down to its    *)
(* first entry the live board, captured, current_player, last_moves and     *)
(* move_order are those of a new game; when redos have then emptied         *)
(* redo_stack they are what they were before the first undo.                *)
UndoRedoRoundTrip ==
    /\ Len(history) = 1 => LiveFields(go_board) = InitialSnapshot(go_board)
    /\ (undoRun.undone /\ redo_stack = <<>>) => LiveFields(go_board) = undoRun.base

\* three actions, one of them a capture, have been undone down to the new game and redone
RoundTripDone ==
    /\ lastCmd.op = "redo"
    /\ lastCmd.ret
    /\ undoRun.floor
    /\ redo_stack = <<>>
    /\ Len(history) >= 4
    /\ go_board.captured.black + go_board.captured.white >= 1

\* the placements among the accepted actions, in order
PlacementsOf(accepted) == SelectSeq(accepted, LAMBDA e : e[1] # -1)

-----------------------------------------------------------------------------
(* C7. Move log monotonicity: as long as no undo has happened, move_order   *)
(* is the sequence of (row, col, player) of the accepted placements in the  *)
(* order they were made; an accepted placement appends its own entry and    *)
(* every other command (rejected click, pass, overlay) leaves the log as it *)
(* is, whether or not logged stones have been captured.                     *)
MoveLogMonotone ==
    /\ [](~forward.undoUsed => go_board.move_order = PlacementsOf(forward.accepted))
    /\ [][ ~forward'.undoUsed
             => go_board'.move_order =
                    IF Clicked(lastCmd') /\ lastCmd'.ret
                    THEN Append(go_board.move_order,
                                <<lastCmd'.row, lastCmd'.col, lastCmd'.player>>)
                    ELSE go_board.move_order ]_vars

\* three placements are logged and the stone of one of them has been captured
LoggedStoneCaptured ==
    /\ ~forward.undoUsed
    /\ Len(go_board.move_order) >= 3
    /\ \E i \in 1..Len(go_board.move_order) :
           go_board.board[go_board.move_order[i][1]][go_board.move_order[i][2]] = 0

-----------------------------------------------------------------------------
(* C8. Influence cache coherence: whenever influence_cache is not empty it  *)
(* is the grid calculate_influence would compute from the current board, so *)
(* a call never returns the grid of an earlier occupancy and two calls in a *)
(* row return the same grid.                                                *)
CacheCoherent ==
    /\ go_board.influence_cache # None =>
           go_board.influence_cache = ComputeInfluence(go_board)
    /\ CalculateInfluence(CalculateInfluence(go_board).self).ret
           = CalculateInfluence(go_board).ret

\* the overlay has just been drawn for a board with stones on it that an undo restored
CacheAfterUndo ==
    /\ lastCmd.op = "influence"
    /\ go_board.influence_cache # None
    /\ redo_stack # <<>>
    /\ Stones(go_board, go_board.board, 1) \cup Stones(go_board, go_board.board, 2) # {}
    /\ go_board.board # redo_stack[Len(redo_stack)].board

\* the accepted actions of the capture scenario, <<row, col, player>> each, Black's passes
\* included
Scenario ==
    << <<2, 2, 1>>, <<1, 2, 2>>, PassBy(1), <<3, 2, 2>>, PassBy(1), <<2, 1, 2>>,
       PassBy(1), <<2, 3, 2>> >>

-----------------------------------------------------------------------------
(* C9. Single-stone capture on the 5x5 board without blocked cells: Black   *)
(* at (2,2), then White at (1,2), (3,2), (2,1), (2,3) with Black passing in *)
(* between.  Every command of the sequence is made by the player whose turn *)
(* it is and every placement of it is accepted; after the last one (2,2) is *)
(* empty, captured['black'] is 1 and captured['white'] is 0.                *)
SingleStoneCapture ==
    /\ \A k \in 0..(Len(Scenario) - 1) :
           (~forward.undoUsed /\ forward.accepted = SubSeq(Scenario, 1, k))
               => LET cmd == Scenario[k + 1]
                  IN  /\ go_board.current_player = cmd[3]
                      /\ cmd[1] # -1 => PlaceStone(go_board, cmd[1], cmd[2], cmd[3]).ret
    /\ (~forward.undoUsed /\ forward.accepted = Scenario)
           => /\ go_board.board[2][2] = 0
              /\ go_board.captured = [black |-> 1, white |-> 0]

\* the whole sequence has been played
ScenarioPlayed ==
    /\ ~forward.undoUsed
    /\ forward.accepted = Scenario
    /\ Clicked(lastCmd)
    /\ lastCmd.ret

-----------------------------------------------------------------------------
(* C10. History floor: history is never empty and its first entry is the    *)
(* snapshot of the new game; an undo with a single entry in history and a   *)
(* redo with an empty redo_stack change neither history, redo_stack nor the *)
(* live board.                                                              *)
HistoryFloor ==
    /\ [](Len(history) >= 1 /\ history[1] = InitialSnapshot(go_board))
    /\ [][ (lastCmd'.op = "undo" /\ Len(history) = 1)
             => UNCHANGED <<go_board, history, redo_stack>> ]_vars
    /\ [][ (lastCmd'.op = "redo" /\ redo_stack = <<>>)
             => UNCHANGED <<go_board, history, redo_stack>> ]_vars

\* every action has been undone and one more undo has just been dispatched
UndoAtFloor ==
    /\ lastCmd.op = "undo"
    /\ ~lastCmd.ret
    /\ Len(history) = 1
    /\ Len(redo_stack) >= 3

\* the command just dispatched was a fresh action: an accepted placement or a pass
Fresh(cmd) == (cmd.op = "click" /\ cmd.ret) \/ cmd.op = "pass"

-----------------------------------------------------------------------------
(* C11. Redo-stack discipline: redo_stack is empty right after every        *)
(* accepted placement and every pass; it grows only in an undo, by one      *)
(* entry, and shrinks only in a redo, by one entry, or by being emptied in  *)
(* a fresh action; a redo that follows a fresh action changes nothing.      *)
RedoStackDiscipline ==
    /\ [][ Fresh(lastCmd') => redo_stack' = <<>> ]_vars
    /\ [][ Len(redo_stack') > Len(redo_stack)
             => /\ lastCmd'.op = "undo"
                /\ Len(redo_stack') = Len(redo_stack) + 1 ]_vars
    /\ [][ Len(redo_stack') < Len(redo_stack)
             => \/ lastCmd'.op = "redo" /\ Len(redo_stack') = Len(redo_stack) - 1
                \/ Fresh(lastCmd') /\ redo_stack' = <<>> ]_vars
    /\ [][ (Fresh(lastCmd) /\ lastCmd'.op = "redo")
             => UNCHANGED <<go_board, history, redo_stack>> ]_vars

\* a redo has just found redo_stack empty: the only action of the game was undone and a
\* fresh action then took its place
RedoAfterFreshAction ==
    /\ lastCmd.op = "redo"
    /\ ~lastCmd.ret
    /\ forward.undoUsed
    /\ ~undoRun.undone
    /\ Len(history) = 2

-----------------------------------------------------------------------------
(* C12. Pass frame: a pass raises consecutive_passes by exactly 1 and       *)
(* replaces current_player by 3 - current_player; board, captured,          *)
(* move_order, last_moves, prev_board and influence_cache (a pass does not  *)
(* empty the cache) and every other field of the object stay as they were.  *)
PassFrame ==
    [][ lastCmd'.op = "pass"
          => /\ go_board'.consecutive_passes = go_board.consecutive_passes + 1
             /\ go_board'.current_player = 3 - go_board.current_player
             /\ go_board'.board = go_board.board
             /\ go_board'.captured = go_board.captured
             /\ go_board'.move_order = go_board.move_order
             /\ go_board'.last_moves = go_board.last_moves
             /\ go_board'.prev_board = go_board.prev_board
             /\ go_board'.prev_prev_board = go_board.prev_prev_board
             /\ go_board'.influence_cache = go_board.influence_cache
             /\ go_board'.board_mask = go_board.board_mask
             /\ go_board'.rows = go_board.rows
             /\ go_board'.cols = go_board.cols
             /\ go_board'.base_power = go_board.base_power ]_vars

\* a pass has just been made over a board with stones on it whose influence grid is cached
PassedWithCache ==
    /\ lastCmd.op = "pass"
    /\ go_board.influence_cache # None
    /\ go_board.prev_board # None
    /\ Stones(go_board, go_board.board, 1) # {}

-----------------------------------------------------------------------------
(* C13. Pass counter: in every reachable state consecutive_passes is the    *)
(* number of pass_turn calls made since the most recent accepted placement  *)
(* (since the start of the game if there is none), rejected placements      *)
(* leaving it as it is, and is_game_over() is true exactly when that number *)
(* is 2 or more.                                                            *)
PassCounter ==
    /\ go_board.consecutive_passes = forward.passes
    /\ IsGameOver(go_board) <=> forward.passes >= 2

\* a placement has just been rejected as a suicide or a ko while one pass was counted
RejectedAfterPass ==
    /\ Clicked(lastCmd)
    /\ ~lastCmd.ret
    /\ forward.passes = 1
    /\ go_board.move_order # <<>>

\* the reason the rules give for turning away a stone of player on rc, "none" if there is
\* none: the position, the occupancy, suicide and ko, looked at in place_stone's order
Reason(self, rc, player) ==
    IF rc \notin Playable(self) THEN "position"
    ELSE IF self.board[rc[1]][rc[2]] # 0 THEN "occupied"
    ELSE IF IsSuicide(self, rc, player) THEN "suicide"
    ELSE LET placed == WithStone(self.board, rc, player)
         IN  IF Without(self, placed, Dead(self, placed, 3 - player)) = self.prev_board
             THEN "ko"
             ELSE "none"

-----------------------------------------------------------------------------
-----------------------------------------------------------------------------
(* C15. Occupancy domain: in every state reached by clicks, passes, undo    *)
(* and redo every cell of board holds 0, 1 or 2, every blocked cell holds   *)
(* 0 and current_player is 1 or 2; a place_stone call aimed at a blocked or *)
(* out-of-range coordinate, for either colour, is rejected.                 *)
OccupancyDomain ==
    /\ \A rc \in Cells(go_board) :
           /\ go_board.board[rc[1]][rc[2]] \in {0, 1, 2}
           /\ go_board.board_mask[rc[1]][rc[2]] # 1 => go_board.board[rc[1]][rc[2]] = 0
    /\ go_board.current_player \in {1, 2}
    /\ \A rc \in ClickTargets(go_board) \ Playable(go_board) : \A p \in {1, 2} :
           ~PlaceStone(go_board, rc[1], rc[2], p).ret

\* after an undo, a click has just been turned away at place_stone's first test although
\* no cell is occupied: it was aimed at a blocked cell or beyond an edge
RejectedOffBoard ==
    /\ lastCmd.op = "click"
    /\ lastCmd.row = -1
    /\ ~lastCmd.ret
    /\ redo_stack # <<>>
    /\ Stones(go_board, go_board.board, 1) \cup Stones(go_board, go_board.board, 2) = {}

-----------------------------------------------------------------------------
(* C16. Commit effects: every accepted place_stone(row, col, player), for   *)
(* either colour and from every reachable state, sets current_player to     *)
(* 3 - player, sets last_moves[player] to (row, col) and leaves the other   *)
(* player's entry, appends exactly (row, col, player) to move_order, resets *)
(* consecutive_passes to 0, empties influence_cache, sets prev_board to the *)
(* board as it was before the call and prev_prev_board to the old           *)
(* prev_board, and leaves the placed stone on the board at (row, col).      *)
CommitEffects ==
    \A rc \in ClickTargets(go_board) : \A player \in {1, 2} :
        LET res == PlaceStone(go_board, rc[1], rc[2], player)
        IN  res.ret
              => /\ res.self.current_player = 3 - player
                 /\ res.self.last_moves[player] = rc
                 /\ res.self.last_moves[3 - player] = go_board.last_moves[3 - player]
                 /\ res.self.move_order = go_board.move_order \o << <<rc[1], rc[2], player>> >>
                 /\ res.self.consecutive_passes = 0
                 /\ res.self.influence_cache = None
                 /\ res.self.prev_board = go_board.board
                 /\ res.self.prev_prev_board = go_board.prev_board
                 /\ res.self.board[rc[1]][rc[2]] = player

\* after an undo, a third placement in a row has just been accepted: prev_board and
\* prev_prev_board hold the boards before it and before the one preceding it, and the
\* other player's last move is still there
CommitDone ==
    /\ Clicked(lastCmd)
    /\ lastCmd.ret
    /\ forward.undoUsed
    /\ Len(go_board.move_order) >= 3
    /\ go_board.prev_prev_board # None
    /\ go_board.prev_prev_board # go_board.prev_board
    /\ go_board.last_moves[3 - lastCmd.player] # None

\* the number of steps between two cells
Steps(a, b) == Abs(a[1] - b[1]) + Abs(a[2] - b[2])

\* the larger of the row offset and the column offset between two cells
Offset(a, b) == IF Abs(a[1] - b[1]) > Abs(a[2] - b[2]) THEN Abs(a[1] - b[1]) ELSE Abs(a[2] - b[2])

RECURSIVE Radiated(_, _, _)
\* the sum over the stones in S of +64 * 0.5^d for a black stone and -64 * 0.5^d for a
\* white one, d the number of steps to x (a whole number for d <= 6)
Radiated(self, S, x) ==
    IF S = {} THEN 0
    ELSE LET st == CHOOSE y \in S : TRUE
             amount == 64 \div (2 ^ Steps(st, x))
         IN  (IF self.board[st[1]][st[2]] = 1 THEN amount ELSE -amount)
                 + Radiated(self, S \ {st}, x)

\* the stones on the board
AllStones(self) == Stones(self, self.board, 1) \cup Stones(self, self.board, 2)

-----------------------------------------------------------------------------
(* C17. Influence radius and formula: calculate_influence() gives each      *)
(* playable cell the sum, over the stones at Manhattan distance d <= 3 from *)
(* it, of +64*0.5^d for Black and -64*0.5^d for White; a stone contributes  *)
(* nothing at Manhattan distance greater than 3; blocked cells have 0.      *)
InfluenceWithinThreeSteps ==
    \A x \in Cells(go_board) :
        CalculateInfluence(go_board).ret[x[1]][x[2]] =
            IF x \in Playable(go_board)
            THEN Radiated(go_board, {st \in AllStones(go_board) : Steps(st, x) <= 3}, x)
            ELSE 0

(* C17 as amended: the stones that count for a cell are those whose row     *)
(* offset and column offset from it are both at most 3, so d ranges up to   *)
(* 6; a stone contributes nothing to a cell more than 3 rows or more than 3 *)
(* columns away; blocked cells have 0.                                      *)
InfluenceWithinSquare ==
    \A x \in Cells(go_board) :
        CalculateInfluence(go_board).ret[x[1]][x[2]] =
            IF x \in Playable(go_board)
            THEN Radiated(go_board, {st \in AllStones(go_board) : Offset(st, x) <= 3}, x)
            ELSE 0

\* the overlay has just been computed for a board with a stone that is more than three
\* steps from a playable cell it reaches, and more than three columns from another
InfluenceDrawnWide ==
    /\ lastCmd.op = "influence"
    /\ go_board.influence_cache # None
    /\ \E st \in AllStones(go_board) :
           /\ \E x \in Playable(go_board) : Steps(st, x) > 3 /\ Offset(st, x) <= 3
           /\ \E x \in Playable(go_board) : Offset(st, x) > 3
    /\ Stones(go_board, go_board.board, 2) # {}

\* the stored snapshots: the dicts held by history and by redo_stack
Stored(h, r) == {h[i] : i \in 1..Len(h)} \cup {r[i] : i \in 1..Len(r)}

\* what a stored snapshot reads as: its five fields with the references followed
SnapshotValue(store, snapshot) ==
    [ board |-> DerefBoard(store, snapshot.board),
      captured |-> store[snapshot.captured],
      current_player |-> snapshot.current_player,
      last_moves |-> store[snapshot.last_moves],
      move_order |-> store[snapshot.move_order] ]

\* the objects reached from a board reference: the list and its rows
BoardObjects(store, board) ==
    IF board = NoRef THEN {} ELSE {board} \cup {store[board][r] : r \in DOMAIN store[board]}

\* the mutable objects of the live board, captured, last_moves and move_order
LiveObjects(store, self) ==
    BoardObjects(store, self.board) \cup {self.captured, self.last_moves, self.move_order}

\* the mutable objects of a snapshot
SnapshotObjects(store, snapshot) ==
    BoardObjects(store, snapshot.board)
        \cup {snapshot.captured, snapshot.last_moves, snapshot.move_order}

-----------------------------------------------------------------------------
(* C18. Snapshot immutability: a snapshot stored in history or redo_stack   *)
(* reads the same, field by field, after every later operation for as long  *)
(* as it is stored (place_stone writing the live board in place, rollback,  *)
(* pass_turn, undo, redo, set_snapshot); the live board, captured,          *)
(* last_moves and move_order share no object with a stored snapshot or with *)
(* prev_board.                                                              *)
SnapshotImmutability ==
    /\ [](\A snapshot \in Stored(history, redo_stack) :
              LiveObjects(heap, go_board) \cap SnapshotObjects(heap, snapshot) = {})
    /\ [](LiveObjects(heap, go_board) \cap BoardObjects(heap, go_board.prev_board) = {})
    /\ [][ \A snapshot \in Stored(history, redo_stack) \cap Stored(history', redo_stack') :
               SnapshotValue(heap', snapshot) = SnapshotValue(heap, snapshot) ]_vars

\* a placement has just been rolled back, after the live rows were written in place, while
\* snapshots sit in history and in redo_stack and prev_board is set
RolledBackOverSnapshots ==
    /\ heap # <<>>
    /\ Clicked(lastCmd)
    /\ ~lastCmd.ret
    /\ Len(history) >= 2
    /\ redo_stack # <<>>
    /\ go_board.prev_board # NoRef

\* the coordinates calculate_influence and check_liberty can hand to is_valid_position:
\* up to three beyond each edge
Probes(self) == ((-3)..(self.rows + 2)) \X ((-3)..(self.cols + 2))

-----------------------------------------------------------------------------
(* C19. Topology query is total: is_valid_position(row, col) returns true   *)
(* exactly when 0 <= row < rows, 0 <= col < cols and the mask marks the     *)
(* cell playable; for negative or too-large coordinates it returns false    *)
(* without raising and without reading the mask (no index wraps around).    *)
(* It returns a value and assigns nothing.                                  *)
ValidPositionTotal ==
    \A rc \in Probes(go_board) :
        LET e == EvalIsValidPosition(go_board, rc[1], rc[2])
            inside == /\ 0 <= rc[1] /\ rc[1] < go_board.rows
                      /\ 0 <= rc[2] /\ rc[2] < go_board.cols
        IN  /\ ~e.raised
            /\ e.ret <=> inside /\ go_board.board_mask[rc[1]][rc[2]] = 1
            /\ e.ret = IsValidPosition(go_board, rc[1], rc[2])
            /\ e.reads = IF inside THEN {rc} ELSE {}
            /\ ~inside => ~e.ret

\* the overlay has just been computed with a stone in the corner (0,0): its dr, dc loops
\* asked for rows and columns -3 to -1 and for rows beyond the last
CornerStoneRadiated ==
    /\ lastCmd.op = "influence"
    /\ go_board.influence_cache # None
    /\ go_board.board[0][0] # 0
    /\ go_board.rows < 4

-----------------------------------------------------------------------------
(* C20. Liberty search correctness: for every board and every cell holding  *)
(* a stone of colour player, check_liberty(row, col, player) is true        *)
(* exactly when the maximal 4-connected group of player's stones containing *)
(* the cell has an adjacent cell that is in range, playable and empty;      *)
(* blocked and out-of-range neighbours never count, and the cells the       *)
(* search goes through are the stones of that group and no others.          *)
LibertySearchCorrect ==
    \A rc \in Stones(go_board, go_board.board, 1) \cup Stones(go_board, go_board.board, 2) :
        LET player == go_board.board[rc[1]][rc[2]]
            group == Group(go_board, go_board.board, rc)
            search == LibertySearch(go_board, player, <<rc>>, {}, 0, <<>>)
        IN  /\ CheckLiberty(go_board, rc[1], rc[2], player)
                <=> Liberties(go_board, go_board.board, group) # {}
            /\ search.visited = group
            /\ {search.expanded[i] : i \in 1..Len(search.expanded)} = group

\* check_liberty has just returned false for a group of three or more stones that touches
\* the blocked centre of the ring and the edge of the grid
DeadGroupAtBlockedCell ==
    /\ lastCmd.op = "check_liberty"
    /\ ~lastCmd.ret
    /\ go_board.board_mask = MaskRing
    /\ Cardinality(Group(go_board, go_board.board, <<lastCmd.row, lastCmd.col>>)) >= 3
    /\ \E x \in Group(go_board, go_board.board, <<lastCmd.row, lastCmd.col>>) :
           Adjacent(x, <<1, 1>>)

\* the number of times check_liberty puts a cell on its queue in a call for the stone on
\* rc: once at the start, and once for each stone of the group next to each stone of it
Enqueued(self, rc) ==
    LET group == Group(self, self.board, rc)
    IN  1 + Cardinality({xy \in group \X group : Adjacent(xy[1], xy[2])})

-----------------------------------------------------------------------------
(* C21. Liberty search terminates and expands each cell at most once: for   *)
(* every board and every stone, check_liberty reaches its return with an    *)
(* empty queue, and no cell has its four neighbours examined more than once *)
(* in a call, however many times the cell was put on the queue.             *)
LibertySearchTerminates ==
    \A rc \in Stones(go_board, go_board.board, 1) \cup Stones(go_board, go_board.board, 2) :
        LET search == LibertySearch(go_board, go_board.board[rc[1]][rc[2]], <<rc>>, {}, 0, <<>>)
        IN  /\ search.queue = <<>>
            /\ \A i, j \in 1..Len(search.expanded) :
                   search.expanded[i] = search.expanded[j] => i = j
            /\ Len(search.expanded) <= Cardinality(Playable(go_board))

\* check_liberty has just returned for a ring of eight stones of one colour: the search
\* went round both ways and every cell was put on the queue more than once
RingSearched ==
    /\ lastCmd.op = "check_liberty"
    /\ go_board.board_mask = MaskRing
    /\ Group(go_board, go_board.board, <<lastCmd.row, lastCmd.col>>) = Playable(go_board)
    /\ Enqueued(go_board, <<lastCmd.row, lastCmd.col>>) >= 2 * Cardinality(Playable(go_board))

\* the number of entries of the move log made by player
Logged(self, player) ==
    Cardinality({i \in 1..Len(self.move_order) : self.move_order[i][3] = player})

-----------------------------------------------------------------------------
(* C22. Stone conservation: in every state reached by clicks, passes, undo  *)
(* and redo, the black stones on the board plus captured['black'] are as    *)
(* many as the entries Black made in move_order, and likewise for White     *)
(* with captured['white']; a click, a pass or a frame never lowers a        *)
(* counter.                                                                 *)
StoneConservation ==
    /\ [](/\ Cardinality(Stones(go_board, go_board.board, 1)) + go_board.captured.black
               = Logged(go_board, 1)
          /\ Cardinality(Stones(go_board, go_board.board, 2)) + go_board.captured.white
               = Logged(go_board, 2))
    /\ [][ lastCmd'.op \in {"click", "pass", "influence"}
             => /\ go_board'.captured.black >= go_board.captured.black
                /\ go_board'.captured.white >= go_board.captured.white ]_vars

\* a capture has been undone and redone, and the move after it is still undone
CaptureRedone ==
    /\ lastCmd.op = "redo"
    /\ lastCmd.ret
    /\ redo_stack # <<>>
    /\ go_board.captured.black + go_board.captured.white >= 1
    /\ history[Len(history) - 1].captured # go_board.captured

-----------------------------------------------------------------------------
(* C23. Game over is final: once is_game_over() is true, no later           *)
(* place_stone call is accepted and no later command changes the board, the *)
(* captured counters or the move log.                                       *)
GameOverIsFinal ==
    [][ IsGameOver(go_board)
          => /\ lastCmd'.op = "click" => ~lastCmd'.ret
             /\ go_board'.board = go_board.board
             /\ go_board'.captured = go_board.captured
             /\ go_board'.move_order = go_board.move_order ]_vars

-----------------------------------------------------------------------------
(* C24. Placement is visible in the influence field: after an accepted      *)
(* placement at (row, col) the grid the next calculate_influence() returns  *)
(* differs from the grid it returned before the placement at (row, col):    *)
(* the value there is strictly larger after a Black placement and strictly  *)
(* smaller after a White one.                                               *)
PlacementVisible ==
    \A rc \in Cells(go_board) : \A player \in {1, 2} :
        LET res == PlaceStone(go_board, rc[1], rc[2], player)
            before == CalculateInfluence(go_board).ret[rc[1]][rc[2]]
            after == CalculateInfluence(res.self).ret[rc[1]][rc[2]]
        IN  res.ret => IF player = 1 THEN after > before ELSE after < before

\* a placement took a stone and the overlay has then been drawn: the value on the placed
\* stone has the sign of its colour
RedrawnAfterCapture ==
    /\ lastCmd.op = "influence"
    /\ ~forward.undoUsed
    /\ forward.accepted # <<>>
    /\ forward.accepted[Len(forward.accepted)][1] # -1
    /\ history[Len(history) - 1].captured # go_board.captured
    /\ go_board.influence_cache # None
    /\ LET last == forward.accepted[Len(forward.accepted)]
       IN  IF last[3] = 1 THEN go_board.influence_cache[last[1]][last[2]] > 0
                          ELSE go_board.influence_cache[last[1]][last[2]] < 0

\* last_moves with nothing recorded, or with one cell of self recorded for both players
LastMovesOf(self) == { [p \in {1, 2} |-> v] : v \in {None} \cup Cells(self) }

(* C25. On the regular board of main.py, place_stone(row, col, player) is    *)
(* rejected and leaves board, captured, move_order, last_moves and          *)
(* current_player as they were whenever (row, col) is last_moves[player],   *)
(* whether or not the cell is empty and the stone would have liberties. On  *)
(* the irregular board of irrBoard.py the value place_stone returns and the *)
(* position it leaves are the same whatever last_moves holds.               *)
OwnLastMoveRule ==
    IF IsLegacy(go_board)
    THEN \A rc \in LegacyCells(go_board) : \A player \in {1, 2} :
             rc = go_board.last_moves[player]
                 => LET res == LegacyPlaceStone(go_board, rc[1], rc[2], player)
                    IN  /\ ~res.ret
                        /\ res.self.board = go_board.board
                        /\ res.self.captured = go_board.captured
                        /\ res.self.move_order = go_board.move_order
                        /\ res.self.last_moves = go_board.last_moves
                        /\ res.self.current_player = go_board.current_player
    ELSE \A rc \in ClickTargets(go_board) : \A player \in {1, 2} :
             \A lm \in LastMovesOf(go_board) :
                 LET res == PlaceStone(go_board, rc[1], rc[2], player)
                     other == PlaceStone([go_board EXCEPT !.last_moves = lm],
                                         rc[1], rc[2], player)
                 IN  /\ other.ret = res.ret
                     /\ other.self.board = res.self.board
                     /\ other.self.captured = res.self.captured

\* C25 witness: on the regular board a click on the player's own last move has just been
\* rejected although the cell is empty (the stone was captured) and, the last move
\* forgotten, the placement would be valid
OwnLastMoveRejected ==
    /\ IsLegacy(go_board)
    /\ lastCmd.op = "click"
    /\ ~lastCmd.ret
    /\ <<lastCmd.row, lastCmd.col>> = go_board.last_moves[lastCmd.player]
    /\ go_board.board[lastCmd.row][lastCmd.col] = 0
    /\ LegacyIsValidMove([go_board EXCEPT !.last_moves = [p \in {1, 2} |-> None]],
                         lastCmd.row, lastCmd.col, lastCmd.player)

\* the placements moves[i], moves[i + 1], ... made in order on self by place_stone: whether
\* every one was accepted, and the object afterwards
RECURSIVE ReplayFrom(_, _, _)
ReplayFrom(self, moves, i) ==
    IF i > Len(moves) THEN [ok |-> TRUE, self |-> self]
    ELSE LET res == PlaceStone(self, moves[i][1], moves[i][2], moves[i][3])
         IN  IF res.ret THEN ReplayFrom(res.self, moves, i + 1)
             ELSE [ok |-> FALSE, self |-> self]

\* the game that makes the placements of self.move_order and nothing else but passes, which
\* hand the turn over and leave the rest of the position alone
ForwardTwin(self) == ReplayFrom(NewGoBoard(self.board_mask), self.move_order, 1)

(* C26. Undo is behaviourally transparent: when the live board, captured,   *)
(* current_player and move_order are also those of a game played without    *)
(* undo or redo, place_stone(row, col, current_player) returns the same     *)
(* value and leaves the same board in both; so a placement that has been    *)
(* undone, together with the one after it, is accepted when played again.   *)
UndoTransparent ==
    LET twin == ForwardTwin(go_board)
    IN  (/\ twin.ok
         /\ twin.self.board = go_board.board
         /\ twin.self.captured = go_board.captured)
            => \A rc \in ClickTargets(go_board) :
                   LET here == PlaceStone(go_board, rc[1], rc[2], go_board.current_player)
                       there == PlaceStone(twin.self, rc[1], rc[2], go_board.current_player)
                   IN  /\ here.ret = there.ret
                       /\ here.self.board = there.self.board

\* entry i of the history h was pushed by a pass: the turn changed hands and no placement
\* was logged
IsPassEntry(h, i) ==
    /\ i >= 2
    /\ h[i].move_order = h[i - 1].move_order
    /\ h[i].current_player # h[i - 1].current_player

(* C27. Game over agrees with the live history: whenever is_game_over() is  *)
(* true, the two most recent entries of history were both pushed by passes; *)
(* a pass that follows the undo of a pass does not end the game by itself.  *)
GameOverAgrees ==
    IsGameOver(go_board)
        => /\ IsPassEntry(history, Len(history))
           /\ IsPassEntry(history, Len(history) - 1)

(* C28. The live state mirrors the top of history: after every command of   *)
(* the adapter (a click accepted or rejected, a pass, an undo, a redo) the  *)
(* live board, captured, current_player, last_moves and move_order are the  *)
(* fields of history[-1], and len(history) - 1 is the number of accepted    *)
(* actions on the live line.                                                *)
LiveMirrorsHistory ==
    /\ LiveFields(go_board) = history[Len(history)]
    /\ Len(history) - 1 = forward.line

\* on a line that holds a capture an action has been undone, and a click has then been
\* rejected while redo_stack still holds the undone entry
RejectedOnRedoneLine ==
    /\ lastCmd.op = "click"
    /\ ~lastCmd.ret
    /\ redo_stack # <<>>
    /\ Len(history) >= 3
    /\ go_board.captured.black + go_board.captured.white >= 1
    /\ undoRun.undone

\* the stones of board that stand in groups without a liberty
DeadStones(self, board) == Dead(self, board, 1) \cup Dead(self, board, 2)

(* C29. No dead group survives: in every reachable state, on every mask     *)
(* (playable cells without a playable neighbour included), every stone on   *)
(* the board belongs to a group with a liberty; and the stones an accepted  *)
(* placement takes belong to groups next to the placed stone.               *)
NoDeadGroup ==
    /\ DeadStones(go_board, go_board.board) = {}
    /\ \A rc \in ClickTargets(go_board) : \A player \in {1, 2} :
           LET res == PlaceStone(go_board, rc[1], rc[2], player)
               taken == Stones(go_board, go_board.board, 3 - player)
                            \ Stones(go_board, res.self.board, 3 - player)
           IN  res.ret => \A x \in taken :
                              \E y \in Group(go_board, go_board.board, x) : Adjacent(y, rc)

\* on a mask with a playable cell that has no playable neighbour, a placement has just
\* taken a stone and left two stones of its own colour on the board
TookAdjacentGroup ==
    /\ Clicked(lastCmd)
    /\ lastCmd.ret
    /\ \E x \in Playable(go_board) : \A y \in Playable(go_board) : ~Adjacent(x, y)
    /\ LET before == history[Len(history) - 1].board
           opponent == 3 - lastCmd.player
       IN  /\ Stones(go_board, before, opponent) # Stones(go_board, go_board.board, opponent)
           /\ Cardinality(Stones(go_board, go_board.board, lastCmd.player)) >= 2

====
